---- MODULE Spec2Model ----
(***************************************************************************)
(* Service-report submission pipeline of ferre_vargas.                     *)
(*                                                                         *)
(* Two server variants are modelled side by side:                          *)
(*   "reports"  - src/unnamed/part_000 (sqlite + local uploads directory), *)
(*                POST/GET /api/reports                                    *)
(*   "informes" - src/API/server.js (Supabase table + storage bucket),     *)
(*                POST/GET /api/informes                                   *)
(* A behaviour follows one server process; `variant` says which one.       *)
(*                                                                         *)
(* Node runs a handler without interruption up to its next `await`, so     *)
(* there is one action per await of the handler: the action is the         *)
(* resolution (or rejection) of the awaited operation followed by the      *)
(* synchronous code up to the next await.                                  *)
(***************************************************************************)
EXTENDS Integers, Sequences, FiniteSets, TLC

\* ------------------------------------------------------------------ bounds
MaxReq == 1        \* submissions of a behaviour of Spec (they may overlap in time)
MaxFotos == 2      \* files per upload field (fotos, anexos) of a submission
MaxClock == 1      \* last instant of the wall clock
MaxStored == 2     \* records already in the table when the list endpoint is studied
MaxGrid == 5       \* photos of the record whose photo grid is studied

\* ------------------------------------------------------- program constants
maxW == 180
maxH == 140
Reqs == 1..MaxReq
Variants == {"reports", "informes"}

\* Text that goes through a regular expression is a sequence of one-character
\* strings; literals without white space are kept as one element.
Null == <<>>

VARIABLES
  variant,     \* which server this process is
  clock,       \* the last instant the process read from the wall clock
  pc,          \* pc[r]: the await request r is suspended at
  req,         \* req[r]: the parsed submission (req.body, req.files) and `now`
  doc,         \* doc[r]: the PDFDocument being composed by generatePDF
  db,          \* the reports / informes table: id -> row
  fs,          \* the asset store: path -> id of the submission whose bytes it holds
  writes,      \* writes[r]: the asset paths request r has written
  optimizing,  \* optimizeImage calls started and not yet settled
  resp,        \* resp[r]: the HTTP response sent for r (status 0: none yet)
  listed       \* the last answer of the list endpoint

vars == <<variant, clock, pc, req, doc, db, fs, writes, optimizing, resp, listed>>

\* The submissions of a behaviour are fixed by its initial state.
Clients == DOMAIN pc


\* ------------------------------------------------------------ input domains
NumReportes == {<<>>, <<"7">>}
Usuarios == {<<>>, <<"a", " ", "b">>}
Clientes == {<<>>, <<"c">>}
FileNames == {[base |-> <<"f", " ", "1">>, ext |-> ".jpg"]}

FileSeqs == UNION {[1..n -> FileNames] : n \in 0..MaxFotos}

\* Submissions whose required fields vary and that carry no files.
FieldBodies ==
  [num_reporte : NumReportes, usuario : Usuarios, cliente : Clientes,
   estado : {""}, firma_tecnico : {FALSE}, firma_cliente : {FALSE},
   fotos : {<<>>}, anexos : {<<>>}]

\* Submissions with every required field: any number of photos, any pair of
\* signatures, one photo next to a signature, or one attachment.
AssetBodies ==
  {b \in [num_reporte : {<<"7">>}, usuario : {<<"a", " ", "b">>}, cliente : {<<"c">>},
          estado : {""}, firma_tecnico : BOOLEAN, firma_cliente : BOOLEAN,
          fotos : FileSeqs, anexos : {<<>>}] :
     \/ b.fotos = <<>>
     \/ ~b.firma_tecnico /\ ~b.firma_cliente
     \/ b.firma_tecnico /\ ~b.firma_cliente /\ Len(b.fotos) = 1}
  \cup
  [num_reporte : {<<"7">>}, usuario : {<<"a", " ", "b">>}, cliente : {<<"c">>},
   estado : {""}, firma_tecnico : {FALSE}, firma_cliente : {FALSE},
   fotos : {<<>>}, anexos : {<<[base |-> <<"x">>, ext |-> ".pdf"]>>}]

EmptyBody ==
  [num_reporte |-> <<>>, usuario |-> <<>>, cliente |-> <<>>, estado |-> "",
   firma_tecnico |-> FALSE, firma_cliente |-> FALSE, fotos |-> <<>>, anexos |-> <<>>]

\* ------------------------------------------------------------------ helpers
\* String.prototype.replace(/\s+/g, '_'): every maximal run of white space
\* becomes one underscore.
RECURSIVE DropWS(_)
DropWS(s) == IF s # <<>> /\ Head(s) = " " THEN DropWS(Tail(s)) ELSE s

RECURSIVE ReplaceWS(_)
ReplaceWS(s) ==
  IF s = <<>> THEN <<>>
  ELSE IF Head(s) = " " THEN <<"_">> \o ReplaceWS(DropWS(Tail(s)))
  ELSE <<Head(s)>> \o ReplaceWS(Tail(s))

\* created_at.split('T')[0] / toISOString().slice(0, 10): the calendar day of
\* an instant (two instants of the model per day).
Day(t) == t \div 2

\* express-validator chains registered on the route, and the fields they
\* report: body(f).notEmpty() fails for an absent or empty field. The
\* informes route registers none, so its validationResult is always empty.
Validators(v) ==
  IF v = "reports" THEN {"num_reporte", "usuario", "cliente"} ELSE {}

ValidationErrors(v, b) == {f \in Validators(v) : b[f] = <<>>}

\* multer.diskStorage filename: `${Date.now()}_${name}${ext}` under uploads.
DiskName(t, f) == <<"/uploads/", ToString(t), "_">> \o ReplaceWS(f.base) \o <<f.ext>>

\* generatePDF (reports): the file the document is written to; the function
\* returns '/uploads/' + its base name.
PdfFile(report) ==
  <<"/uploads/">> \o
  ReplaceWS(<<"Reporte_">> \o report.num_reporte \o <<"_">> \o report.usuario
            \o <<"_", ToString(Day(report.created_at)), ".pdf">>)

FirmaFile(who, id) == <<"/uploads/", "firma_", who, "_", ToString(id), ".png">>
QrFile(id) == <<"/uploads/", "qr_", ToString(id), ".png">>

\* uploadToStorage: the object is written (upsert) and its public URL returned.
PublicUrl(bucket, path) == <<"storage://", bucket, "/">> \o path

\* generatePDF (informes): `pdfs/${report.id}/${pdfName}`, the day being today's.
PdfObject(report, t) ==
  <<"pdfs/", ToString(report.id), "/">> \o
  ReplaceWS(<<"Reporte_">> \o report.num_reporte \o <<"_">> \o report.usuario
            \o <<"_", ToString(Day(t)), ".pdf">>)

FirmaObject(who, id) == <<"firmas/", ToString(id), "_", who, ".png">>
FotoObject(id, f) == <<"fotos/", ToString(id), "_">> \o f.base \o <<f.ext>>
AnexoObject(id, f) == <<"anexos/", ToString(id), "_">> \o f.base \o <<f.ext>>

\* Writing bytes of submission v under the keys ks of the asset store.
PutAll(f, ks, v) == [x \in DOMAIN f \cup ks |-> IF x \in ks THEN v ELSE f[x]]

NoResp == [status |-> 0, ok |-> FALSE, step |-> "", id |-> 0, pdf_url |-> Null]
NoReq == [body |-> EmptyBody, now |-> 0]
NoDoc == [path |-> Null, section |-> FALSE, placed |-> <<>>, i |-> 0,
          x |-> 0, y |-> 0, pages |-> 0, firmas |-> {}, captions |-> {}, qr |-> "no",
          qrtext |-> Null, bad |-> {}, sbad |-> {}]

\* res.status(400).json({ ok: false, errors })
BadRequest == [NoResp EXCEPT !.status = 400]
\* The catch block (informes) or the error middleware (reports):
\* res.status(500).json({ ok: false, error: e.message }); the message tells
\* which operation threw.
ServerError(step) == [NoResp EXCEPT !.status = 500, !.step = step]
\* res.json({ ok: true, id, pdf_url, ... })
Success(id, url) == [status |-> 200, ok |-> TRUE, step |-> "", id |-> id, pdf_url |-> url]

\* A catch block that deletes the row of the failed submission.
DbOnErrorRollback(d, id) == [x \in DOMAIN d \ {id} |-> d[x]]

\* What the catch block does to the table: nothing.
DbOnError(d, id) == d

\* GET /api/reports/:id, GET /api/informes/:id: the row, or 404.
Detail(d, id) ==
  IF id \in DOMAIN d THEN [status |-> 200, row |-> d[id]]
  ELSE [status |-> 404, row |-> <<>>]

\* A server that has just started, with an empty table and an empty store,
\* about to receive the submissions of C.
Start(C) ==
  /\ variant \in Variants
  /\ clock = 0
  /\ pc = [r \in C |-> "idle"]
  /\ req = [r \in C |-> NoReq]
  /\ doc = [r \in C |-> NoDoc]
  /\ db = <<>>
  /\ fs = <<>>
  /\ writes = [r \in C |-> {}]
  /\ optimizing = {}
  /\ resp = [r \in C |-> NoResp]
  /\ listed = <<>>

Init == Start(Reqs)

\* ------------------------------------------------------ PDF photo grid
\* doc.y after the header and the five fields, where the grid starts.
StartYs == {300}

\* `if (fotos.length) { ...text('Registro fotografico'); let x = 40, y = doc.y`
BeginPhotos(d, n, y0) ==
  IF n > 0 THEN [d EXCEPT !.section = TRUE, !.x = 40, !.y = y0, !.i = 0]
  ELSE [d EXCEPT !.i = 0]

\* One iteration of `for (let foto of fotos)`: the image is drawn at (x, y)
\* unless loading it throws (caught and ignored), then the cursor advances.
PhotoStep(d, loaded) ==
  LET k == d.i + 1
      drawn == IF loaded
               THEN Append(d.placed, [k |-> k, x |-> d.x, y |-> d.y, page |-> d.pages])
               ELSE d.placed
      x1 == d.x + maxW + 15
      wrap == x1 + maxW > 555
      x2 == IF wrap THEN 40 ELSE x1
      y2 == IF wrap THEN d.y + maxH + 20 ELSE d.y
      brk == y2 + maxH > 740
  IN [d EXCEPT !.placed = drawn, !.i = k, !.x = x2,
               !.y = IF brk THEN 60 ELSE y2,
               !.pages = IF brk THEN d.pages + 1 ELSE d.pages]

\* A loop without the try/catch around doc.image: it ends at the first photo
\* that fails to load.
RECURSIVE PhotoLoopStops(_, _, _)
PhotoLoopStops(d, n, bad) ==
  IF d.i >= n \/ (d.i + 1) \in bad THEN d
  ELSE PhotoLoopStops(PhotoStep(d, TRUE), n, bad)

\* The whole loop over n photos, `bad` being the photos that fail to load.
RECURSIVE PhotoLoop(_, _, _)
PhotoLoop(d, n, bad) ==
  IF d.i >= n THEN d ELSE PhotoLoop(PhotoStep(d, (d.i + 1) \notin bad), n, bad)

\* A signature block: the image is embedded unless loading throws (ignored),
\* and the caption is written either way.
SignStep(d, who, loaded) ==
  [d EXCEPT !.firmas = IF loaded THEN d.firmas \cup {who} ELSE d.firmas,
            !.captions = d.captions \cup {who}]

\* generatePDF from its start to `await QRCode.toDataURL`: photo section and
\* signature blocks of `report`, written to `path`. bad and sbad are the
\* photos and signatures that cannot be loaded, kept with the document.
RenderBody(report, path, y0, bad, sbad) ==
  LET n == Len(report.fotos)
      d0 == [NoDoc EXCEPT !.path = path, !.bad = bad, !.sbad = sbad]
      d1 == PhotoLoop(BeginPhotos(d0, n, y0), n, bad)
      d2 == IF report.firma_tecnico # Null
            THEN SignStep(d1, "tecnico", "tecnico" \notin sbad) ELSE d1
  IN IF report.firma_cliente # Null
     THEN SignStep(d2, "cliente", "cliente" \notin sbad) ELSE d2

\* The signatures a row refers to.
Signed(report) ==
  (IF report.firma_tecnico # Null THEN {"tecnico"} ELSE {})
  \cup (IF report.firma_cliente # Null THEN {"cliente"} ELSE {})

\* UPDATE ... SET pdf_path=? WHERE id=? / update({ pdf_path }).eq("id", id)
SetPdfPath(d, id, path) ==
  IF id \in DOMAIN d THEN [d EXCEPT ![id].pdf_path = path] ELSE d

\* A request leaves the handler with the response `out`; of the PDFDocument
\* only what the stored document carries of the QR code is remembered.
Respond(r, out) ==
  /\ resp' = [resp EXCEPT ![r] = out]
  /\ pc' = [pc EXCEPT ![r] = "done"]
  /\ doc' = [doc EXCEPT ![r] = [NoDoc EXCEPT !.qr = doc[r].qr, !.qrtext = doc[r].qrtext]]

\* `${BASE_URL}/public/report.html?id=${report.id}`
ViewUrl(id) == <<"BASE_URL", "/public/report.html?id=", ToString(id)>>

\* generatePDF (reports): `${publicReportURL}|${publicPDFURL}`, publicPDFURL
\* being BASE_URL + (report.pdf_path, or '/uploads/' + basename(pdfFile)).
QrTextReports(report, pdfFile) ==
  ViewUrl(report.id) \o <<"|", "BASE_URL">>
  \o (IF report.pdf_path # Null THEN report.pdf_path ELSE pdfFile)

\* generatePDF (informes): publicPDFURL is `${BASE_URL}/${pdfPath}`.
QrTextInformes(report, pdfPath) ==
  ViewUrl(report.id) \o <<"|", "BASE_URL", "/">> \o pdfPath

\* What a GET of `url` finds: a public object of the bucket, or a file of the
\* uploads directory served by express.static under BASE_URL.
Served(url) ==
  \/ url \in DOMAIN fs
  \/ \E p \in DOMAIN fs : Head(p) = "/uploads/" /\ url = <<"BASE_URL">> \o p

\* ------------------------------------------------ POST /api/reports (sqlite)
\* A row inserted with the document path it is going to get.
ReportsRowWithPath(id, q) ==
  [id |-> id, created_at |-> q.now,
   num_reporte |-> q.body.num_reporte, usuario |-> q.body.usuario,
   cliente |-> q.body.cliente, estado |-> "ENVIADO",
   firma_tecnico |-> Null, firma_cliente |-> Null, fotos |-> <<>>, anexos |-> <<>>,
   pdf_path |-> <<"/uploads/", "Reporte.pdf">>]

\* The row of INSERT INTO reports: pdf_path is null, estado defaults to ENVIADO.
ReportsRow(id, q) ==
  LET b == q.body IN
  [id |-> id, created_at |-> q.now,
   num_reporte |-> b.num_reporte, usuario |-> b.usuario, cliente |-> b.cliente,
   estado |-> IF b.estado # "" THEN b.estado ELSE "ENVIADO",
   firma_tecnico |-> IF b.firma_tecnico THEN FirmaFile("tecnico", id) ELSE Null,
   firma_cliente |-> IF b.firma_cliente THEN FirmaFile("cliente", id) ELSE Null,
   fotos |-> [k \in 1..Len(b.fotos) |-> DiskName(q.now, b.fotos[k])],
   anexos |-> [k \in 1..Len(b.anexos) |-> DiskName(q.now, b.anexos[k])],
   pdf_path |-> Null]

\* The request arrives at instant t: multer stores the uploaded files (upok:
\* they pass the file filter and the size limit), the validators run, and the
\* handler runs up to `await db.run(INSERT ...)`: the signatures are written
\* and an optimizeImage call is started, not awaited, for every photo.
\* sigfail: 0, or which saveBase64PNG call throws (1 tecnico, 2 cliente).
ReportsReceive(r, b, t, upok, sigfail) ==
  LET files == {DiskName(t, b.fotos[k]) : k \in 1..Len(b.fotos)}
               \cup {DiskName(t, b.anexos[k]) : k \in 1..Len(b.anexos)}
      sigs == (IF b.firma_tecnico /\ sigfail # 1
               THEN {FirmaFile("tecnico", r)} ELSE {})
              \cup (IF b.firma_cliente /\ sigfail = 0
                    THEN {FirmaFile("cliente", r)} ELSE {})
  IN
  /\ variant = "reports"
  /\ pc[r] = "idle"
  /\ IF r = 1 THEN TRUE ELSE pc[r - 1] # "idle"
  /\ IF upok THEN TRUE ELSE files # {}
  /\ IF sigfail = 0 THEN TRUE ELSE upok /\ ValidationErrors(variant, b) = {}
  /\ sigfail = 1 => b.firma_tecnico
  /\ sigfail = 2 => b.firma_cliente
  /\ clock' = t
  /\ req' = [req EXCEPT ![r] = [body |-> b, now |-> t]]
  /\ IF ~upok
     THEN /\ Respond(r, ServerError("upload"))
          /\ UNCHANGED <<fs, writes, optimizing>>
     ELSE IF ValidationErrors(variant, b) # {}
     THEN /\ Respond(r, BadRequest)
          /\ fs' = PutAll(fs, files, r)
          /\ writes' = [writes EXCEPT ![r] = @ \cup files]
          /\ UNCHANGED optimizing
     ELSE IF sigfail # 0
     THEN /\ Respond(r, ServerError("firma"))
          /\ fs' = PutAll(fs, files \cup sigs, r)
          /\ writes' = [writes EXCEPT ![r] = @ \cup files \cup sigs]
          /\ UNCHANGED optimizing
     ELSE /\ pc' = [pc EXCEPT ![r] = "insert"]
          /\ fs' = PutAll(fs, files \cup sigs, r)
          /\ writes' = [writes EXCEPT ![r] = @ \cup files \cup sigs]
          /\ optimizing' = optimizing \cup {<<r, k>> : k \in 1..Len(b.fotos)}
          /\ UNCHANGED <<resp, doc>>
  /\ UNCHANGED <<variant, db, listed>>

\* An optimizeImage call settles: sharp's buffer is written over the uploaded
\* file, or the error is logged and dropped.
OptimizeImage(r, k, ok) ==
  /\ <<r, k>> \in optimizing
  /\ optimizing' = optimizing \ {<<r, k>>}
  /\ fs' = IF ok THEN PutAll(fs, {DiskName(req[r].now, req[r].body.fotos[k])}, r) ELSE fs
  /\ UNCHANGED <<variant, clock, pc, req, doc, db, writes, resp, listed>>

\* `await db.run(INSERT ...)` settles; then db.get is issued.
ReportsInsert(r, ok) ==
  /\ variant = "reports"
  /\ pc[r] = "insert"
  /\ IF ok
     THEN /\ db' = PutAll(db, {r}, ReportsRow(r, req[r]))
          /\ pc' = [pc EXCEPT ![r] = "select"]
          /\ UNCHANGED <<resp, doc>>
     ELSE /\ db' = DbOnError(db, r)
          /\ Respond(r, ServerError("insert"))
  /\ UNCHANGED <<variant, clock, req, fs, writes, optimizing, listed>>

\* `await db.get(SELECT ...)` settles; generatePDF(report) then runs up to
\* `await QRCode.toDataURL`: the write stream is opened on pdfFile, the photo
\* grid and the signatures are drawn (doc.image reads the files synchronously).
ReportsRender(r, ok, y0, bad, sbad) ==
  /\ variant = "reports"
  /\ pc[r] = "select"
  /\ IF ok
     THEN /\ bad \subseteq 1..Len(db[r].fotos)
          /\ sbad \subseteq Signed(db[r])
          /\ doc' = [doc EXCEPT ![r] = RenderBody(db[r], PdfFile(db[r]), y0, bad, sbad)]
          /\ fs' = PutAll(fs, {PdfFile(db[r])}, r)
          /\ writes' = [writes EXCEPT ![r] = @ \cup {PdfFile(db[r])}]
          /\ pc' = [pc EXCEPT ![r] = "qr"]
          /\ UNCHANGED <<db, resp>>
     ELSE /\ bad = {} /\ sbad = {}
          /\ db' = DbOnError(db, r)
          /\ Respond(r, ServerError("select"))
          /\ UNCHANGED <<fs, writes>>
  /\ UNCHANGED <<variant, clock, req, optimizing, listed>>

\* How the QR block of generatePDF can go.
QrOutcomes == {"ok", "encode_rejects", "write_throws", "embed_throws"}

\* `await QRCode.toDataURL(...)` settles; then saveBase64PNG(qrDataURL, qrPath),
\* the caption and doc.image(qrPath) inside try/catch, doc.end(). Only the
\* embedding is inside the try: a rejected toDataURL or a failed write leaves
\* generatePDF, and the handler, with the error.
ReportsQR(r, out) ==
  /\ variant = "reports"
  /\ pc[r] = "qr"
  /\ IF out \in {"encode_rejects", "write_throws"}
     THEN /\ db' = DbOnError(db, r)
          /\ Respond(r, ServerError("qr"))
          /\ UNCHANGED <<fs, writes>>
     ELSE /\ fs' = PutAll(fs, {QrFile(r)}, r)
          /\ writes' = [writes EXCEPT ![r] = @ \cup {QrFile(r)}]
          /\ doc' = [doc EXCEPT ![r] =
                     [NoDoc EXCEPT !.path = doc[r].path,
                                   !.qr = IF out = "ok" THEN "embedded" ELSE "failed",
                                   !.qrtext = IF out = "ok"
                                              THEN QrTextReports(db[r], doc[r].path)
                                              ELSE Null]]
          /\ pc' = [pc EXCEPT ![r] = "finish"]
          /\ UNCHANGED <<db, resp>>
  /\ UNCHANGED <<variant, clock, req, optimizing, listed>>

\* `await new Promise(res => stream.on('finish', res))`: the stream finishes,
\* generatePDF returns '/uploads/' + basename(pdfFile) and the UPDATE is
\* issued. A stream that errors (the file cannot be opened or written) never
\* emits 'finish' and nothing listens for 'error': the promise stays pending,
\* or the unhandled 'error' event ends the process; the request gets no answer.
ReportsFinish(r, ok) ==
  /\ variant = "reports"
  /\ pc[r] = "finish"
  /\ IF ok
     THEN /\ fs' = PutAll(fs, {doc[r].path}, r)
          /\ pc' = [pc EXCEPT ![r] = "update"]
     ELSE /\ fs' = fs
          /\ pc' = [pc EXCEPT ![r] = "hung"]
  /\ UNCHANGED <<variant, clock, req, doc, db, writes, optimizing, resp, listed>>

\* `await db.run(UPDATE ...)` settles; then getTransporter(): with the SMTP_*
\* variables set sendMail is awaited, without them the success response is sent.
ReportsUpdate(r, ok, transporter) ==
  /\ variant = "reports"
  /\ pc[r] = "update"
  /\ IF ~ok
     THEN /\ transporter
          /\ db' = DbOnError(db, r)
          /\ Respond(r, ServerError("update"))
     ELSE /\ db' = SetPdfPath(db, r, doc[r].path)
          /\ IF transporter
             THEN /\ pc' = [pc EXCEPT ![r] = "mail"]
                  /\ UNCHANGED <<resp, doc>>
             ELSE Respond(r, Success(r, <<"BASE_URL">> \o doc[r].path))
  /\ UNCHANGED <<variant, clock, req, fs, writes, optimizing, listed>>

\* `await transporter.sendMail(...)` settles inside the handler's try block:
\* resolved, res.json({ ok: true, ... }); rejected, the catch block answers.
ReportsMail(r, ok) ==
  /\ variant = "reports"
  /\ pc[r] = "mail"
  /\ IF ok
     THEN /\ db' = db
          /\ Respond(r, Success(r, <<"BASE_URL">> \o doc[r].path))
     ELSE /\ db' = DbOnError(db, r)
          /\ Respond(r, ServerError("mail"))
  /\ UNCHANGED <<variant, clock, req, fs, writes, optimizing, listed>>

\* --------------------------------------------- POST /api/informes (Supabase)
\* The uploadToStorage calls of the handler before the insert, in order:
\* technician signature, client signature, every photo, every attachment.
Uploads(id, b) ==
  (IF b.firma_tecnico
   THEN <<[step |-> "firma", url |-> PublicUrl("informes", FirmaObject("tecnico", id))]>>
   ELSE <<>>)
  \o (IF b.firma_cliente
      THEN <<[step |-> "firma", url |-> PublicUrl("informes", FirmaObject("cliente", id))]>>
      ELSE <<>>)
  \o [k \in 1..Len(b.fotos) |->
        [step |-> "foto", url |-> PublicUrl("informes", FotoObject(id, b.fotos[k]))]]
  \o [k \in 1..Len(b.anexos) |->
        [step |-> "anexo", url |-> PublicUrl("informes", AnexoObject(id, b.anexos[k]))]]

\* The row of supabase.from("informes").insert([...]): pdf_path is null.
InformesRow(id, q) ==
  LET b == q.body IN
  [id |-> id, created_at |-> q.now,
   num_reporte |-> b.num_reporte, usuario |-> b.usuario, cliente |-> b.cliente,
   estado |-> IF b.estado # "" THEN b.estado ELSE "ENVIADO",
   firma_tecnico |-> IF b.firma_tecnico
                     THEN PublicUrl("informes", FirmaObject("tecnico", id)) ELSE Null,
   firma_cliente |-> IF b.firma_cliente
                     THEN PublicUrl("informes", FirmaObject("cliente", id)) ELSE Null,
   fotos |-> [k \in 1..Len(b.fotos) |-> PublicUrl("informes", FotoObject(id, b.fotos[k]))],
   anexos |-> [k \in 1..Len(b.anexos) |-> PublicUrl("informes", AnexoObject(id, b.anexos[k]))],
   pdf_path |-> Null]

\* The request arrives at instant t (multer keeps the files in memory), the
\* handler checks validationResult and awaits its uploads one after the other,
\* then issues the insert. failAt: 0, or the position in Uploads of the upload
\* that throws; the uploads before it are stored. The awaits in between touch
\* only objects named after this submission's id and are taken in one step.
InformesReceive(r, b, t, failAt) ==
  LET ups == Uploads(r, b)
      done == {ups[k].url : k \in 1..(IF failAt = 0 THEN Len(ups) ELSE failAt - 1)}
  IN
  /\ variant = "informes"
  /\ pc[r] = "idle"
  /\ IF r = 1 THEN TRUE ELSE pc[r - 1] # "idle"
  /\ failAt \in 0..Len(ups)
  /\ IF failAt = 0 THEN TRUE ELSE ValidationErrors(variant, b) = {}
  /\ clock' = t
  /\ req' = [req EXCEPT ![r] = [body |-> b, now |-> t]]
  /\ IF ValidationErrors(variant, b) # {}
     THEN /\ Respond(r, BadRequest)
          /\ UNCHANGED <<fs, writes>>
     ELSE /\ fs' = PutAll(fs, done, r)
          /\ writes' = [writes EXCEPT ![r] = @ \cup done]
          /\ IF failAt # 0
             THEN Respond(r, ServerError(ups[failAt].step))
             ELSE /\ pc' = [pc EXCEPT ![r] = "insert"]
                  /\ UNCHANGED <<resp, doc>>
  /\ UNCHANGED <<variant, db, optimizing, listed>>

\* `await supabase.from("informes").insert([...]).select()` settles:
\* `if (error) throw error`, else generatePDF(inserted[0], ...) starts.
InformesInsert(r, ok) ==
  /\ variant = "informes"
  /\ pc[r] = "insert"
  /\ IF ok
     THEN /\ db' = PutAll(db, {r}, InformesRow(r, req[r]))
          /\ pc' = [pc EXCEPT ![r] = "render"]
          /\ UNCHANGED <<resp, doc>>
     ELSE /\ db' = DbOnError(db, r)
          /\ Respond(r, ServerError("insert"))
  /\ UNCHANGED <<variant, clock, req, fs, writes, optimizing, listed>>

\* generatePDF(report, fotos, firmas) up to `await QRCode.toDataURL`: the name
\* is built with today's date, every photo and signature is fetched and drawn
\* inside its own try/catch. The fetches only read, and are taken in one step.
InformesRender(r, t, y0, bad, sbad) ==
  /\ variant = "informes"
  /\ pc[r] = "render"
  /\ bad \subseteq 1..Len(db[r].fotos)
  /\ sbad \subseteq Signed(db[r])
  /\ clock' = t
  /\ doc' = [doc EXCEPT ![r] = RenderBody(db[r], PdfObject(db[r], t), y0, bad, sbad)]
  /\ pc' = [pc EXCEPT ![r] = "qr"]
  /\ UNCHANGED <<variant, req, db, fs, writes, optimizing, resp, listed>>

\* `await QRCode.toDataURL(...)` settles; then doc.image(qrBuffer, ...) and
\* doc.end(). Nothing here is inside a try: a rejected toDataURL or a throwing
\* doc.image leaves generatePDF, and the handler's try block, with the error.
InformesQR(r, out) ==
  /\ variant = "informes"
  /\ pc[r] = "qr"
  /\ out # "write_throws"
  /\ IF out = "ok"
     THEN /\ doc' = [doc EXCEPT ![r] =
                     [NoDoc EXCEPT !.path = doc[r].path, !.qr = "embedded",
                                   !.qrtext = QrTextInformes(db[r], doc[r].path)]]
          /\ pc' = [pc EXCEPT ![r] = "finish"]
          /\ UNCHANGED <<db, resp>>
     ELSE /\ db' = DbOnError(db, r)
          /\ Respond(r, ServerError("qr"))
  /\ UNCHANGED <<variant, clock, req, fs, writes, optimizing, listed>>

\* `await endPromise`: the document emits 'end', the buffer is complete and
\* uploadToStorage("informes", pdfPath, ...) is issued.
InformesFinish(r) ==
  /\ variant = "informes"
  /\ pc[r] = "finish"
  /\ pc' = [pc EXCEPT ![r] = "storedoc"]
  /\ UNCHANGED <<variant, clock, req, doc, db, fs, writes, optimizing, resp, listed>>

\* The upload of the document settles: `if (error) throw error`, else
\* generatePDF returns the public URL and the update is issued.
InformesStoreDoc(r, ok) ==
  /\ variant = "informes"
  /\ pc[r] = "storedoc"
  /\ IF ok
     THEN /\ fs' = PutAll(fs, {PublicUrl("informes", doc[r].path)}, r)
          /\ writes' = [writes EXCEPT ![r] = @ \cup {PublicUrl("informes", doc[r].path)}]
          /\ pc' = [pc EXCEPT ![r] = "update"]
          /\ UNCHANGED <<db, resp, doc>>
     ELSE /\ db' = DbOnError(db, r)
          /\ Respond(r, ServerError("storedoc"))
          /\ UNCHANGED <<fs, writes>>
  /\ UNCHANGED <<variant, clock, req, optimizing, listed>>

\* `await supabase.from("informes").update({ pdf_path }).eq("id", id)` settles.
\* The client reports a failure in the `error` field of its result, which this
\* statement does not read: the handler goes on either way.
InformesUpdate(r, ok, transporter) ==
  /\ variant = "informes"
  /\ pc[r] = "update"
  /\ db' = IF ok THEN SetPdfPath(db, r, PublicUrl("informes", doc[r].path)) ELSE db
  /\ IF transporter
     THEN /\ pc' = [pc EXCEPT ![r] = "mail"]
          /\ UNCHANGED <<resp, doc>>
     ELSE Respond(r, Success(r, PublicUrl("informes", doc[r].path)))
  /\ UNCHANGED <<variant, clock, req, fs, writes, optimizing, listed>>

\* `await transporter.sendMail(...)` settles inside the handler's try block.
InformesMail(r, ok) ==
  /\ variant = "informes"
  /\ pc[r] = "mail"
  /\ IF ok
     THEN /\ db' = db
          /\ Respond(r, Success(r, PublicUrl("informes", doc[r].path)))
     ELSE /\ db' = DbOnError(db, r)
          /\ Respond(r, ServerError("mail"))
  /\ UNCHANGED <<variant, clock, req, fs, writes, optimizing, listed>>

\* ------------------------------------------------------------ specifications
\* The steps of one submission to the reports server: its body is drawn from
\* B and the clock does not pass T.
Reports(B, T) ==
  \E r \in Clients :
    \/ \E b \in B, t \in clock..T, upok \in BOOLEAN, sigfail \in 0..2 :
         ReportsReceive(r, b, t, upok, sigfail)
    \/ \E ok \in BOOLEAN : ReportsInsert(r, ok)
    \/ \E ok \in BOOLEAN, y0 \in StartYs, bad \in SUBSET (1..MaxFotos),
          sbad \in SUBSET {"tecnico", "cliente"} : ReportsRender(r, ok, y0, bad, sbad)
    \/ \E out \in QrOutcomes : ReportsQR(r, out)
    \/ \E ok \in BOOLEAN : ReportsFinish(r, ok)
    \/ \E ok \in BOOLEAN, transporter \in BOOLEAN : ReportsUpdate(r, ok, transporter)
    \/ \E ok \in BOOLEAN : ReportsMail(r, ok)

\* The same for the informes server.
Informes(B, T) ==
  \E r \in Clients :
    \/ \E b \in B, t \in clock..T, failAt \in 0..(2 + 2 * MaxFotos) :
         InformesReceive(r, b, t, failAt)
    \/ \E ok \in BOOLEAN : InformesInsert(r, ok)
    \/ \E t \in clock..T, y0 \in StartYs, bad \in SUBSET (1..MaxFotos),
          sbad \in SUBSET {"tecnico", "cliente"} : InformesRender(r, t, y0, bad, sbad)
    \/ \E out \in QrOutcomes : InformesQR(r, out)
    \/ InformesFinish(r)
    \/ \E ok \in BOOLEAN : InformesStoreDoc(r, ok)
    \/ \E ok \in BOOLEAN, transporter \in BOOLEAN : InformesUpdate(r, ok, transporter)
    \/ \E ok \in BOOLEAN : InformesMail(r, ok)

Optimize == \E r \in Clients, k \in 1..MaxFotos, ok \in BOOLEAN : OptimizeImage(r, k, ok)

Next == Reports(AssetBodies, 0) \/ Informes(AssetBodies, 0)

Spec == Init /\ [][Next]_vars

\* Submissions whose required fields vary, one at a time.
NextValidate == Reports(FieldBodies, 0) \/ Informes(FieldBodies, 0)

SpecValidate == Init /\ [][NextValidate]_vars

\* Submissions with photos from users whose names differ only in white space.
PairBodies ==
  [num_reporte : {<<"7">>}, usuario : {<<"a", " ", "b">>, <<"a", "_", "b">>},
   cliente : {<<"c">>}, estado : {""}, firma_tecnico : {FALSE},
   firma_cliente : {FALSE}, fotos : {<<>>, <<[base |-> <<"f", " ", "1">>, ext |-> ".jpg"]>>},
   anexos : {<<>>}]

\* One more submission than in Spec, overlapping in time, with the detached
\* optimizeImage calls settling whenever they do.
NextPair == Reports(PairBodies, MaxClock) \/ Informes(PairBodies, MaxClock) \/ Optimize

SpecPair == Start(1..(MaxReq + 1)) /\ [][NextPair]_vars

\* ------------------------------------------- GET /api/reports, /api/informes
\* The query string: an absent or empty parameter is falsy and adds no
\* condition (desde and hasta: -1 when absent).
Queries ==
  [usuario : {<<>>, <<"a">>, <<"b">>}, estado : {"", "ENVIADO", "PENDIENTE"},
   desde : -1..MaxClock, hasta : -1..MaxClock]

\* WHERE usuario=? AND estado=? AND created_at>=? AND created_at<=?, each
\* condition present only for a parameter that was given.
Where(row, q) ==
  /\ q.usuario # <<>> => row.usuario = q.usuario
  /\ q.estado # "" => row.estado = q.estado
  /\ q.desde # -1 => row.created_at >= q.desde
  /\ q.hasta # -1 => row.created_at <= q.hasta

\* ORDER BY created_at DESC over the rows `ids`: every order of them in which
\* created_at never increases (rows of the same instant come in any order).
Ordered(d, ids) ==
  {s \in [1..Cardinality(ids) -> ids] :
     /\ \A i, j \in DOMAIN s : i # j => s[i] # s[j]
     /\ \A i, j \in DOMAIN s : i < j => d[s[i]].created_at >= d[s[j]].created_at}

\* GET /api/reports: the rows the WHERE clause keeps, newest first.
ListReports(q) ==
  /\ variant = "reports"
  /\ \E s \in Ordered(db, {id \in DOMAIN db : Where(db[id], q)}) :
       listed' = <<[query |-> q, rows |-> [i \in DOMAIN s |-> db[s[i]]]]>>
  /\ UNCHANGED <<variant, clock, pc, req, doc, db, fs, writes, optimizing, resp>>

\* GET /api/informes: select("*").order("created_at", { ascending: false });
\* the query string is not read.
ListInformes(q) ==
  /\ variant = "informes"
  /\ \E s \in Ordered(db, DOMAIN db) :
       listed' = <<[query |-> q, rows |-> [i \in DOMAIN s |-> db[s[i]]]]>>
  /\ UNCHANGED <<variant, clock, pc, req, doc, db, fs, writes, optimizing, resp>>

\* Rows left in the table by earlier submissions.
StoredRows ==
  [id : {0}, created_at : 0..MaxClock, num_reporte : {<<"7">>},
   usuario : {<<"a">>, <<"b">>}, cliente : {<<"c">>},
   estado : {"ENVIADO", "PENDIENTE"}, firma_tecnico : {Null}, firma_cliente : {Null},
   fotos : {<<>>}, anexos : {<<>>}, pdf_path : {<<"doc">>}]

StoredTables ==
  UNION {{[id \in 1..n |-> [t[id] EXCEPT !.id = id, !.pdf_path = <<"doc", ToString(id)>>]] :
            t \in [1..n -> StoredRows]} : n \in 0..MaxStored}

\* A server restarted on a table that earlier submissions filled.
InitList ==
  /\ variant \in Variants
  /\ clock = MaxClock
  /\ pc = [r \in Reqs |-> "idle"]
  /\ req = [r \in Reqs |-> NoReq]
  /\ doc = [r \in Reqs |-> NoDoc]
  /\ db \in StoredTables
  /\ fs = <<>>
  /\ writes = [r \in Reqs |-> {}]
  /\ optimizing = {}
  /\ resp = [r \in Reqs |-> NoResp]
  /\ listed = <<>>

NextList == \E q \in Queries : ListReports(q) \/ ListInformes(q)

SpecList == InitList /\ [][NextList]_vars

\* --------------------------------------------------- the estado of a submission
\* req.body.estado is free text: the page sends ENVIADO or PENDIENTE, any other
\* client sends what it likes or nothing.
EstadoBodies ==
  [num_reporte : {<<"7">>}, usuario : {<<"a", " ", "b">>}, cliente : {<<"c">>},
   estado : {"", "ENVIADO", "PENDIENTE", "BORRADOR"},
   firma_tecnico : BOOLEAN, firma_cliente : {FALSE}, fotos : {<<>>}, anexos : {<<>>}]

NextEstado == Reports(EstadoBodies, 0) \/ Informes(EstadoBodies, 0)

SpecEstado == Init /\ [][NextEstado]_vars

\* ------------------------------------------------- the photo grid on its own
\* doc.y when the photo section starts: the header and the five fields are
\* text of any length, which flows down the page (and onto a new one).
GridYs == {160, 300, 460, 620, 700}

GridBody(n) ==
  [num_reporte |-> <<"7">>, usuario |-> <<"a", " ", "b">>, cliente |-> <<"c">>,
   estado |-> "", firma_tecnico |-> FALSE, firma_cliente |-> FALSE,
   fotos |-> [k \in 1..n |-> [base |-> <<"f", " ", "1">>, ext |-> ".jpg"]],
   anexos |-> <<>>]

\* A server whose submissions, each with the same number of photos, have been
\* inserted and are about to enter generatePDF.
InitGrid ==
  \E n \in 0..MaxGrid :
    /\ variant \in Variants
    /\ clock = 0
    /\ pc = [r \in Reqs |-> IF variant = "reports" THEN "select" ELSE "render"]
    /\ req = [r \in Reqs |-> [body |-> GridBody(n), now |-> 0]]
    /\ doc = [r \in Reqs |-> NoDoc]
    /\ db = [r \in Reqs |-> IF variant = "reports"
                            THEN ReportsRow(r, [body |-> GridBody(n), now |-> 0])
                            ELSE InformesRow(r, [body |-> GridBody(n), now |-> 0])]
    /\ fs = <<>>
    /\ writes = [r \in Reqs |-> {}]
    /\ optimizing = {}
    /\ resp = [r \in Reqs |-> NoResp]
    /\ listed = <<>>

NextGrid ==
  \E r \in Clients, y0 \in GridYs, bad \in SUBSET (1..MaxGrid) :
    \/ \E ok \in BOOLEAN : ReportsRender(r, ok, y0, bad, {})
    \/ InformesRender(r, 0, y0, bad, {})

SpecGrid == InitGrid /\ [][NextGrid]_vars

\* ------------------------------------------------------------- progress
\* The event loop runs every callback that is ready: a step that can be taken
\* is eventually taken.
SpecLive == Init /\ [][Next]_vars /\ WF_vars(Next)

\* ------------------------------------------------------------------ claims
RequiredFields == {"num_reporte", "usuario", "cliente"}

\* C1: whenever a submission has been answered with ok=true, the id of the
\* response is the id of a row the detail endpoint returns, and that row's
\* pdf_path is not null.
ReturnedIdHasDocument ==
  \A r \in Clients :
    resp[r].ok =>
      /\ Detail(db, resp[r].id).status = 200
      /\ Detail(db, resp[r].id).row.id = resp[r].id
      /\ Detail(db, resp[r].id).row.pdf_path # Null

\* C2: a submission with num_reporte, usuario or cliente absent or empty is
\* answered 400 (never anything else) and no row is inserted for it.
MissingFieldRejected ==
  \A r \in Clients :
    (pc[r] # "idle" /\ \E f \in RequiredFields : req[r].body[f] = <<>>) =>
      /\ resp[r].status \in {0, 400}
      /\ r \notin DOMAIN db

\* C3: a submission that failed while storing a signature, a photo or an
\* attachment (or in the insert itself) was answered with an error and has no
\* row; one that failed or stopped after the insert and before pdf_path was
\* updated has a row whose pdf_path is null, and the detail endpoint returns
\* it so.
FailureLeavesNoHalfRecord ==
  \A r \in Clients :
    /\ (resp[r].status = 500
        /\ resp[r].step \in {"upload", "firma", "foto", "anexo", "insert"})
         => ~resp[r].ok /\ Detail(db, r).status = 404
    /\ ((resp[r].status = 500 /\ resp[r].step \in {"select", "qr", "storedoc", "update"})
        \/ pc[r] = "hung")
         => /\ Detail(db, r).status = 200
            /\ Detail(db, r).row.pdf_path = Null

\* C3 witness: a submission whose document could not be produced or stored has
\* been answered 500 and its row is in the table without a document.
RenderFailedAfterInsert ==
  \E r \in Clients :
    /\ resp[r].status = 500
    /\ resp[r].step \in {"qr", "storedoc"}
    /\ r \in DOMAIN db
    /\ db[r].pdf_path = Null

\* C4: once the row is inserted and its pdf_path set, the response of the
\* submission is the ok=true one, whatever the mail transport does.
MailFailureIgnored ==
  \A r \in Clients :
    (r \in DOMAIN db /\ db[r].pdf_path # Null /\ resp[r].status # 0) => resp[r].ok

\* C5: two submissions never write the same asset path, and the pdf_path of
\* every row leads to the document rendered from that row.
AssetPathsDisjoint ==
  /\ \A r1, r2 \in Clients : r1 # r2 => writes[r1] \cap writes[r2] = {}
  /\ \A id \in DOMAIN db :
       db[id].pdf_path # Null =>
         db[id].pdf_path \in DOMAIN fs /\ fs[db[id].pdf_path] = id

\* C6: no store step of a submission (optimizeImage included) is still running
\* once its row is inserted, while generatePDF runs, or once it is answered.
StepsAwaited ==
  \A r \in Clients :
    (r \in DOMAIN db \/ resp[r].status # 0) =>
      \A k \in 1..MaxFotos : <<r, k>> \notin optimizing

\* C7: no submission is aborted by a failure of the QR block of generatePDF.
QrFailureSwallowed ==
  \A r \in Clients : resp[r].status = 500 => resp[r].step # "qr"

\* C8: when generatePDF has drawn the photo grid and the signatures, every
\* photo of the row has been processed, the photo section exists exactly when
\* there are photos, the photos embedded are exactly those that loaded, in
\* order, and every signature of the row has its caption, with its image
\* exactly when it loaded.
MissingImagesSkipped ==
  \A r \in Clients :
    pc[r] = "qr" =>
      LET d == doc[r]
          n == Len(db[r].fotos)
      IN /\ d.i = n
         /\ d.section = (n > 0)
         /\ {d.placed[j].k : j \in DOMAIN d.placed} = (1..n) \ d.bad
         /\ \A i, j \in DOMAIN d.placed : i < j => d.placed[i].k < d.placed[j].k
         /\ d.captions = Signed(db[r])
         /\ d.firmas = Signed(db[r]) \ d.sbad

\* C8 witness: the first photo failed to load, and the second one is embedded.
PhotoAfterFailedOneEmbedded ==
  \E r \in Clients :
    /\ pc[r] = "qr"
    /\ 1 \in doc[r].bad
    /\ \E j \in DOMAIN doc[r].placed : doc[r].placed[j].k = 2

\* What C9 asks of a row for the filters that were given.
Matches(row, q) ==
  /\ q.usuario # <<>> => row.usuario = q.usuario
  /\ q.estado # "" => row.estado = q.estado
  /\ q.desde # -1 => row.created_at >= q.desde
  /\ q.hasta # -1 => row.created_at <= q.hasta

\* C9: the list endpoint answers with exactly the rows that match every
\* filter given, each once, newest first.
ListMatchesFilters ==
  listed # <<>> =>
    LET rows == listed[1].rows IN
    /\ {rows[i] : i \in DOMAIN rows} = {db[id] : id \in {x \in DOMAIN db : Matches(db[x], listed[1].query)}}
    /\ Len(rows) = Cardinality({x \in DOMAIN db : Matches(db[x], listed[1].query)})
    /\ \A i, j \in DOMAIN rows : i < j => rows[i].created_at >= rows[j].created_at

\* C10: a row is inserted with pdf_path null; pdf_path goes from null to a
\* value only in the step that follows generatePDF's return, the value being
\* a document this submission has stored; a pdf_path that is set never changes;
\* no row is deleted.
DocumentReferenceSetOnce ==
  [][/\ DOMAIN db \subseteq DOMAIN db'
     /\ \A id \in DOMAIN db' :
          IF id \notin DOMAIN db THEN db'[id].pdf_path = Null
          ELSE /\ db[id].pdf_path # Null => db'[id].pdf_path = db[id].pdf_path
               /\ (db[id].pdf_path = Null /\ db'[id].pdf_path # Null) =>
                    /\ pc[id] = "update"
                    /\ db'[id].pdf_path \in writes[id]
                    /\ db'[id].pdf_path \in DOMAIN fs]_vars

\* C10 witness: a row whose pdf_path has been set.
DocumentReferenceSet == \E id \in DOMAIN db : db[id].pdf_path # Null

\* The two values of estado the specification enumerates.
Estados == {"ENVIADO", "PENDIENTE"}

\* C11: the estado of every row, when it is inserted and ever after, is
\* ENVIADO or PENDIENTE whatever the submission carried, and the estado of a
\* row changes only from PENDIENTE to ENVIADO.
EstadoEnumerated ==
  [][\A id \in DOMAIN db' :
       /\ db'[id].estado \in Estados
       /\ id \in DOMAIN db =>
            \/ db'[id].estado = db[id].estado
            \/ db[id].estado = "PENDIENTE" /\ db'[id].estado = "ENVIADO"]_vars

\* C12: every photo generatePDF has drawn lies with its maxW x maxH box inside
\* the page (x >= 40, x + maxW <= 555, y + maxH <= 740), and of two
\* consecutive photos the second is to the right of the first in the same row,
\* or is the first of a new row or page.
PhotosInsidePage ==
  \A r \in Clients :
    pc[r] = "qr" =>
      LET ps == doc[r].placed IN
      \A j \in DOMAIN ps :
        /\ ps[j].x >= 40
        /\ ps[j].x + maxW <= 555
        /\ ps[j].y + maxH <= 740
        /\ (j > 1 /\ ps[j - 1].k = ps[j].k - 1) =>
             \/ /\ ps[j].page = ps[j - 1].page
                /\ ps[j].y = ps[j - 1].y
                /\ ps[j].x > ps[j - 1].x
             \/ /\ ps[j].x = 40
                /\ \/ ps[j].page > ps[j - 1].page
                   \/ ps[j].page = ps[j - 1].page /\ ps[j].y > ps[j - 1].y

\* C13: every submission the server has received is eventually answered
\* (200, 400 or 500), also when the output stream of the document fails.
EveryRequestAnswered ==
  \A r \in Reqs : (pc[r] # "idle") ~> (resp[r].status \in {200, 400, 500})

\* C14: the QR code embedded in the document of an answered submission
\* encodes the view URL of that record, a '|' and the URL returned as pdf_url,
\* and a GET of that URL finds the document.
QrEncodesUrls ==
  \A r \in Clients :
    (resp[r].ok /\ doc[r].qr = "embedded") =>
      /\ doc[r].qrtext = ViewUrl(resp[r].id) \o <<"|">> \o resp[r].pdf_url
      /\ Served(resp[r].pdf_url)

====
